---- MODULE Spec2Model ----
(***************************************************************************)
(* A model of gpisti/real-estate-analyser: the scraper (pagination plan,   *)
(* city index, listing extractor, orchestrator), the field normalizers     *)
(* and the storage insert.                                                 *)
(*                                                                         *)
(* Text is modelled as a sequence of one-character strings, so that        *)
(* substring search, strip and the regular-expression filters are          *)
(* computed and not assumed.  An optional value (Python's None, a missing  *)
(* element, SQL NULL) is a sequence of length at most one: None is <<>>,   *)
(* a present value v is <<v>>.                                             *)
(***************************************************************************)
EXTENDS Integers, Sequences, FiniteSets, TLC

VARIABLES
    pc,            \* position of the operation under study
    log,           \* entries written to the logging sink, oldest first (under Spec:
                   \* those written since the current refresh began)
    estate_count,  \* generate_links: its argument
    links,         \* generate_links: the list it returned
    csv_file,      \* the city reference file on disk (None: no such file)
    cities,        \* the city index load_cities_from_csv returned
    location,      \* extract_city_from_location: the location text
    city,          \* extract_city_from_location: its result (None before the call)
    soup,          \* extract_estate_data: the parsed page, a sequence of listing slots
    page_data,     \* extract_estate_data: the records it returned
    page_slots,    \* for each returned record, the slot position it came from
    site,          \* the count texts the site's landing page may show
    landing,       \* scrape_real_estate_data: what the landing fetch returned
    all_data,      \* scrape_real_estate_data: the aggregate so far
    link_idx,      \* scrape_real_estate_data: position of the loop in links
    fetched,       \* every fetch_page_content call so far: its URL and what it returned
    result,        \* scrape_real_estate_data: the returned list (None before it returns)
    data,          \* main: the scrape result handed to connect_root
    table,         \* real_estate_listings: the committed rows, in insertion order
    pending,       \* rows inserted by the open transaction, not yet committed
    rec_idx,       \* insert_data_into_database: position of the loop in data
    run,           \* how many refreshes were started
    reached,       \* the refreshes that called insert_data_into_database
    truncated_run, \* the last refresh whose TRUNCATE succeeded (0: none yet)
    before,        \* the committed rows when insert_data_into_database was called
    calls,         \* this refresh's INSERT executions: record position, values, outcome
    db_error,      \* the step whose MySQLError ended this insert ("none": no such error)
    cache,         \* what st.cache_data holds for load_data (None: nothing cached)
    raw_value,     \* parse_decimal: its argument
    parsed         \* parse_decimal: its result (None before the call and for a null)

vars == <<pc, log, estate_count, links, csv_file, cities, location, city,
          soup, page_data, page_slots, site, landing, all_data, link_idx, fetched, result,
          data, table, pending, rec_idx, run, reached, truncated_run, before, calls,
          db_error, cache, raw_value, parsed>>

linkVars == <<estate_count, links>>
cityVars == <<csv_file, cities, location, city>>
extractVars == <<soup, page_data, page_slots>>
scrapeVars == <<site, landing, all_data, link_idx, fetched, result>>
storeVars == <<data, table, pending, rec_idx, run, reached, truncated_run, before, calls,
               db_error, cache>>
parseVars == <<raw_value, parsed>>

---------------------------------------------------------------------------
(* Bounds of the model.                                                    *)

\* largest estate count tried on generate_links (the cap of 500 pages is
\* reached from 9980 on)
MaxCount == 10050
\* longest cell of the city file, in characters
MaxCellLen == 2
\* most cells in one row of the city file
MaxCols == 2
\* most data rows (after the header) in the city file
MaxRows == 2
\* most listing slots (children of the listing grid) on one page
MaxDivs == 2
\* most records in one scrape result handed to the storage insert
MaxData == 2
\* most refreshes started in one behaviour
MaxRuns == 2
\* longest free text handed to parse_decimal, in characters
MaxTextLen == 3
\* longest plan whose pages are answered in every way; the pages of a
\* longer plan are answered in one way each
MaxVariedPlan == 3

---------------------------------------------------------------------------
(* Optional values and text.                                               *)

None == <<>>
Some(v) == <<v>>
IsNone(o) == Len(o) = 0
Val(o) == o[1]

Min(a, b) == IF a < b THEN a ELSE b

\* all sequences over S of length at most n
SeqsUpTo(S, n) == UNION {[1..k -> S] : k \in 0..n}

Digits == {"0", "1", "2", "3", "4", "5", "6", "7", "8", "9"}
Whitespace == {" "}

\* s[a..b], empty when a > b
Slice(s, a, b) == [i \in 1..(IF b >= a THEN b - a + 1 ELSE 0) |-> s[a + i - 1]]

\* Python's `sub in s` on strings
Contains(s, sub) ==
    \E k \in 0..(Len(s) - Len(sub)) : Slice(s, k + 1, k + Len(sub)) = sub

\* Python's str.strip(): leading and trailing whitespace removed
Strip(s) ==
    LET keep == {i \in 1..Len(s) : s[i] \notin Whitespace}
    IN  IF keep = {} THEN <<>>
        ELSE LET lo == CHOOSE i \in keep : \A j \in keep : i <= j
                 hi == CHOOSE i \in keep : \A j \in keep : i >= j
             IN  Slice(s, lo, hi)

\* the characters of s that satisfy the filter, in order (re.sub of the rest)
RECURSIVE KeepChars(_, _)
KeepChars(s, allowed) ==
    IF s = <<>> THEN <<>>
    ELSE (IF Head(s) \in allowed THEN <<Head(s)>> ELSE <<>>)
         \o KeepChars(Tail(s), allowed)

LogEntry(level, msg, arg) == [level |-> level, msg |-> msg, arg |-> arg]

---------------------------------------------------------------------------
(* scraper.generate_links                                                  *)

PAGE_CAP == 500
PAGE_SIZE == 20

\* the pagination URL of page x: the fixed template around the page number
Url(x) ==
    <<"https://otthonterkep.hu/elado+minden-kategoria/minden-megye/minden-telepules/0/0/0/0?p=",
      x, "&sort=ad_feladas_time%7Cdesc">>
PageOf(url) == url[2]

\* Python's list(range(lo, hi))
Range(lo, hi) == [i \in 1..(IF hi > lo THEN hi - lo ELSE 0) |-> lo + i - 1]

generate_links_from_zero(c) ==
    LET max_pages == Min(PAGE_CAP, c \div PAGE_SIZE + 1)
        xs == Range(0, max_pages)
    IN  [i \in 1..Len(xs) |-> Url(xs[i])]

generate_links(c) ==
    LET max_pages == Min(PAGE_CAP, c \div PAGE_SIZE + 1)
        xs == Range(1, max_pages + 1)
    IN  [i \in 1..Len(xs) |-> Url(xs[i])]

GenerateLinks ==
    /\ pc = "start"
    /\ links' = generate_links(estate_count)
    /\ log' = Append(log, LogEntry("INFO", "Generated pagination links.", Len(links')))
    /\ pc' = "done"
    /\ UNCHANGED <<estate_count, cityVars, extractVars, scrapeVars, storeVars, parseVars>>

---------------------------------------------------------------------------
(* scraper.load_cities_from_csv and utils.extract_city_from_location       *)

Alphabet == {"a", " "}
CITY == <<"c", "i", "t", "y">>

Cells == SeqsUpTo(Alphabet, MaxCellLen)
\* a parsed row of the file; csv.reader yields [] for a blank line
Rows == SeqsUpTo(Cells, MaxCols)
\* the first row is read as the header whatever it holds
HeaderRows == {<<>>, <<CITY>>, <<<<"a">>, CITY>>, <<<<"a">>>>, <<<<"a">>, <<"a">>>>}
\* a readable file is the sequence of its rows (possibly none at all)
CsvFiles ==
    {<<>>} \cup {<<h>> \o rs : h \in HeaderRows, rs \in SeqsUpTo(Rows, MaxRows)}

\* header.index("city")
IndexOf(row, cell) == CHOOSE i \in 1..Len(row) : row[i] = cell /\ \A j \in 1..(i - 1) : row[j] # cell

\* the column read: 1-based here, 0-based in the source
CityColumn(header) ==
    IF \E i \in 1..Len(header) : header[i] = CITY THEN IndexOf(header, CITY) ELSE 1

\* The loop over the data rows.  A non-empty row shorter than the city
\* column raises IndexError, which ends the loop with what was read so far.
RECURSIVE ReadRows(_, _, _)
ReadRows(rows, col, acc) ==
    IF rows = <<>> THEN [list |-> acc, raised |-> FALSE]
    ELSE LET row == Head(rows)
         IN  IF row = <<>> THEN ReadRows(Tail(rows), col, acc)
             ELSE IF col > Len(row) THEN [list |-> acc, raised |-> TRUE]
             ELSE IF row[col] = <<>> THEN ReadRows(Tail(rows), col, acc)
             ELSE ReadRows(Tail(rows), col, Append(acc, Strip(row[col])))

\* The loop as the documentation describes it: blank entries are left out
\* after trimming.
RECURSIVE ReadRowsTrimmedNonEmpty(_, _, _)
ReadRowsTrimmedNonEmpty(rows, col, acc) ==
    IF rows = <<>> THEN [list |-> acc, raised |-> FALSE]
    ELSE LET row == Head(rows)
         IN  IF row = <<>> THEN ReadRowsTrimmedNonEmpty(Tail(rows), col, acc)
             ELSE IF col > Len(row) THEN [list |-> acc, raised |-> TRUE]
             ELSE IF Strip(row[col]) = <<>>
                  THEN ReadRowsTrimmedNonEmpty(Tail(rows), col, acc)
             ELSE ReadRowsTrimmedNonEmpty(Tail(rows), col, Append(acc, Strip(row[col])))

\* [list, logs]: the returned index and the entries logged
load_cities_from_csv(file) ==
    IF IsNone(file)
    THEN [list |-> <<>>, logs |-> <<LogEntry("ERROR", "CSV file not found", 0)>>]
    ELSE LET rows == Val(file)
             header == IF rows = <<>> THEN <<>> ELSE Head(rows)
             body == IF rows = <<>> THEN <<>> ELSE Tail(rows)
             r == ReadRows(body, CityColumn(header), <<>>)
         IN  IF r.raised
             THEN [list |-> r.list,
                   logs |-> <<LogEntry("ERROR", "Error loading cities from CSV", 0)>>]
             ELSE [list |-> r.list,
                   logs |-> <<LogEntry("INFO", "Loaded cities from the CSV file.", Len(r.list))>>]

UNKNOWN == <<"U", "n", "k", "n", "o", "w", "n">>

RECURSIVE extract_city_from_location(_, _)
extract_city_from_location(loc, cs) ==
    IF cs = <<>> THEN UNKNOWN
    ELSE IF Contains(loc, Head(cs)) THEN Head(cs)
    ELSE extract_city_from_location(loc, Tail(cs))

LoadCities ==
    /\ pc = "start"
    /\ LET r == load_cities_from_csv(csv_file)
       IN  /\ cities' = r.list
           /\ log' = log \o r.logs
    /\ pc' = "loaded"
    /\ UNCHANGED <<csv_file, location, city, linkVars, extractVars, scrapeVars, storeVars,
                   parseVars>>

ResolveCity ==
    /\ pc = "loaded"
    /\ \E text \in SeqsUpTo(Alphabet, MaxCellLen) :
        /\ location' = text
        /\ city' = Some(extract_city_from_location(text, cities))
    /\ pc' = "done"
    /\ UNCHANGED <<log, csv_file, cities, linkVars, extractVars, scrapeVars, storeVars,
                   parseVars>>

---------------------------------------------------------------------------
(* scraper.extract_estate_data                                             *)

\* the slot positions probed on every page: range(1, 22)
FIRST_SLOT == 1
LAST_SLOT == 21

NA == <<"N", "/", "A">>

\* A listing slot is the n-th child of the listing grid; each element the
\* selectors look for is there (with its text) or not.  The room count and
\* the floor are read with the same selector, hence from the same element.
Slot(loc, price, rooms, place, land) ==
    [loc |-> loc, price |-> price, rooms |-> rooms, place |-> place, land |-> land]

\* soup.select_one(... div:nth-child(estate) ...): None when the page has no
\* such child or the child has no such element
SelectOne(page, estate, field) ==
    IF estate <= Len(page) THEN page[estate][field] ELSE None

\* Python truthiness: a str is true when non-empty, a Tag always
Truthy(text) == text # <<>>

\* a record whose type is decided on the untrimmed room text
estate_record_raw_type(property_location, price, room_num, place_size, land_size, floor) ==
    [property_location |-> Strip(property_location),
     price |-> Strip(Val(price)),
     type |-> IF Val(room_num) = <<"0">> THEN "House" ELSE "Apartment",
     place_size |-> IF ~IsNone(place_size) THEN Strip(Val(place_size)) ELSE NA,
     land_size |-> IF ~IsNone(land_size) THEN Strip(Val(land_size)) ELSE NA,
     rooms |-> IF ~IsNone(room_num) THEN Strip(Val(room_num)) ELSE NA,
     floor |-> IF ~IsNone(floor) THEN Strip(Val(floor)) ELSE NA]

\* the dictionary appended for a slot
estate_record(property_location, price, room_num, place_size, land_size, floor) ==
    [property_location |-> Strip(property_location),
     price |-> Strip(Val(price)),
     type |-> IF Strip(Val(room_num)) = <<"0">> THEN "House" ELSE "Apartment",
     place_size |-> IF ~IsNone(place_size) THEN Strip(Val(place_size)) ELSE NA,
     land_size |-> IF ~IsNone(land_size) THEN Strip(Val(land_size)) ELSE NA,
     rooms |-> IF ~IsNone(room_num) THEN Strip(Val(room_num)) ELSE NA,
     floor |-> IF ~IsNone(floor) THEN Strip(Val(floor)) ELSE NA]

\* a loop body that reads the floor from another element than the room count
slot_records_floor_elsewhere(page, estate, cs) ==
    LET temp_location == SelectOne(page, estate, "loc")
        property_location ==
            extract_city_from_location(
                IF ~IsNone(temp_location) THEN Val(temp_location) ELSE <<>>, cs)
        price == SelectOne(page, estate, "price")
        floor == SelectOne(page, estate, "land")
        place_size == SelectOne(page, estate, "place")
        land_size == SelectOne(page, estate, "land")
        room_num == SelectOne(page, estate, "rooms")
    IN  IF Truthy(property_location) /\ ~IsNone(price) /\ ~IsNone(room_num)
        THEN <<[slot |-> estate,
                rec |-> estate_record(property_location, price, room_num,
                                      place_size, land_size, floor)]>>
        ELSE <<>>

\* one pass of the loop body: the records (none or one) slot `estate` adds
slot_records(page, estate, cs) ==
    LET temp_location == SelectOne(page, estate, "loc")
        property_location ==
            extract_city_from_location(
                IF ~IsNone(temp_location) THEN Val(temp_location) ELSE <<>>, cs)
        price == SelectOne(page, estate, "price")
        floor == SelectOne(page, estate, "rooms")
        place_size == SelectOne(page, estate, "place")
        land_size == SelectOne(page, estate, "land")
        room_num == SelectOne(page, estate, "rooms")
    IN  IF Truthy(property_location) /\ ~IsNone(price) /\ ~IsNone(room_num)
        THEN <<[slot |-> estate,
                rec |-> estate_record(property_location, price, room_num,
                                      place_size, land_size, floor)]>>
        ELSE <<>>

RECURSIVE ExtractFrom(_, _, _)
ExtractFrom(page, estate, cs) ==
    IF estate > LAST_SLOT THEN <<>>
    ELSE slot_records(page, estate, cs) \o ExtractFrom(page, estate + 1, cs)

\* [data, slots, logs]: the returned records, the slot of each, the entry logged
extract_estate_data(page, cs) ==
    LET found == ExtractFrom(page, FIRST_SLOT, cs)
    IN  [data |-> [i \in 1..Len(found) |-> found[i].rec],
         slots |-> [i \in 1..Len(found) |-> found[i].slot],
         logs |-> <<LogEntry("INFO", "Extracted real estate records from the page.",
                             Len(found))>>]

\* texts of the elements of a slot
LocationTexts == {<<"a">>}
PriceTexts == {<<" ", "1", "2", " ", "F", "t">>}
RoomTexts == {<<" ", "0">>, <<"2", " ">>}
SizeTexts == {<<"5">>}

Opt(S) == {None} \cup {Some(t) : t \in S}

Slots ==
    {Slot(l, p, r, s, d) : l \in Opt(LocationTexts), p \in Opt(PriceTexts),
                           r \in Opt(RoomTexts), s \in Opt(SizeTexts),
                           d \in Opt(SizeTexts)}
Pages == SeqsUpTo(Slots, MaxDivs)

\* city files whose indexes the extractor is run with
SampleCsvFiles ==
    {None,
     Some(<<<<CITY>>, <<<<"a">>>>>>),
     Some(<<<<CITY>>, <<<<" ">>>>, <<<<"a">>>>>>),
     Some(<<<<CITY>>, <<<<"a", "a">>>>, <<<<"a">>>>>>)}
SampleIndexes == {load_cities_from_csv(f).list : f \in SampleCsvFiles}

Extract ==
    /\ pc = "start"
    /\ LET r == extract_estate_data(soup, cities)
       IN  /\ page_data' = r.data
           /\ page_slots' = r.slots
           /\ log' = log \o r.logs
    /\ pc' = "done"
    /\ UNCHANGED <<soup, cityVars, linkVars, scrapeVars, storeVars, parseVars>>

---------------------------------------------------------------------------
(* scraper.fetch_page_content, extract_estate_count and                    *)
(* scrape_real_estate_data                                                 *)

\* A fetched document: the text of the listing-count element (if the page
\* has one) and the listing grid.  A failed fetch returns None.
Document(count, slots) == [count |-> count, slots |-> slots]

\* the entries fetch_page_content logs for an outcome
fetch_logs(url, doc) ==
    IF IsNone(doc)
    THEN <<LogEntry("ERROR", "Failed to retrieve the page.", PageOf(url))>>
    ELSE <<>>

DigitVal(c) ==
    CASE c = "0" -> 0 [] c = "1" -> 1 [] c = "2" -> 2 [] c = "3" -> 3 [] c = "4" -> 4
      [] c = "5" -> 5 [] c = "6" -> 6 [] c = "7" -> 7 [] c = "8" -> 8 [] c = "9" -> 9

RECURSIVE DigitsValue(_, _)
DigitsValue(ds, acc) ==
    IF ds = <<>> THEN acc ELSE DigitsValue(Tail(ds), 10 * acc + DigitVal(Head(ds)))

\* text.split(): the whitespace-separated words
RECURSIVE Split(_, _)
Split(text, word) ==
    IF text = <<>> THEN (IF word = <<>> THEN <<>> ELSE <<word>>)
    ELSE IF Head(text) \in Whitespace
         THEN (IF word = <<>> THEN <<>> ELSE <<word>>) \o Split(Tail(text), <<>>)
         ELSE Split(Tail(text), Append(word, Head(text)))

\* int(word): an optional sign, then digits only (None: ValueError)
ParseInt(word) ==
    LET signed == word # <<>> /\ Head(word) \in {"+", "-"}
        body == IF signed THEN Tail(word) ELSE word
    IN  IF body = <<>> \/ \E i \in 1..Len(body) : body[i] \notin Digits THEN None
        ELSE IF signed /\ Head(word) = "-" THEN Some(0 - DigitsValue(body, 0))
        ELSE Some(DigitsValue(body, 0))

\* [count, logs]
extract_estate_count(doc) ==
    LET element == doc.count
        words == IF IsNone(element) THEN <<>> ELSE Split(Val(element), <<>>)
        failed == [count |-> 0,
                   logs |-> <<LogEntry("ERROR", "Error extracting estate count", 0)>>]
    IN  IF IsNone(element)
        THEN [count |-> 0,
              logs |-> <<LogEntry("INFO", "Total real estate listings found", 0)>>]
        ELSE IF words = <<>> THEN failed
        ELSE IF IsNone(ParseInt(words[1])) THEN failed
        ELSE [count |-> Val(ParseInt(words[1])),
              logs |-> <<LogEntry("INFO", "Total real estate listings found",
                                  Val(ParseInt(words[1])))>>]

base_url == Url(1)

\* the run has ended before the loop, with an empty result
Fatal(count, logs) ==
    [fatal |-> TRUE, count |-> count, links |-> <<>>, cities |-> <<>>, logs |-> logs]

\* the prologue without the check of the estate count
scrape_prologue_no_count_check(doc, file) ==
    IF IsNone(doc)
    THEN Fatal(0, fetch_logs(base_url, doc)
                  \o <<LogEntry("ERROR", "Failed to fetch the main page content.", 0)>>)
    ELSE LET c == extract_estate_count(Val(doc))
             ls == generate_links(c.count)
             loaded == load_cities_from_csv(file)
         IN  [fatal |-> FALSE, count |-> c.count, links |-> ls, cities |-> loaded.list,
              logs |-> c.logs
                       \o <<LogEntry("INFO", "Generated pagination links.", Len(ls))>>
                       \o loaded.logs]

\* scrape_real_estate_data up to the loop, given what the landing fetch
\* returned and the city file on disk
scrape_prologue(doc, file) ==
    IF IsNone(doc)
    THEN Fatal(0, fetch_logs(base_url, doc)
                  \o <<LogEntry("ERROR", "Failed to fetch the main page content.", 0)>>)
    ELSE LET c == extract_estate_count(Val(doc))
         IN  IF c.count = 0
             THEN Fatal(0, c.logs
                           \o <<LogEntry("ERROR", "No real estate listings found.", 0)>>)
             ELSE LET ls == generate_links(c.count)
                      loaded == load_cities_from_csv(file)
                  IN  [fatal |-> FALSE, count |-> c.count, links |-> ls,
                       cities |-> loaded.list,
                       logs |-> c.logs
                                \o <<LogEntry("INFO", "Generated pagination links.", Len(ls))>>
                                \o loaded.logs]

\* the loop body with a failed page emptying the aggregate
visit_page_reset_on_failure(acc, link, doc, cs) ==
    IF ~IsNone(doc)
    THEN LET r == extract_estate_data(Val(doc).slots, cs)
         IN  [data |-> acc \o r.data,
              logs |-> fetch_logs(link, doc) \o r.logs
                       \o <<LogEntry("INFO", "Total records collected so far",
                                     Len(acc \o r.data))>>]
    ELSE [data |-> <<>>,
          logs |-> fetch_logs(link, doc)
                   \o <<LogEntry("WARNING", "Skipping link due to fetch error",
                                 PageOf(link))>>]

\* one pass of the loop body: [data, logs], the aggregate after it and the
\* entries logged
visit_page(acc, link, doc, cs) ==
    IF ~IsNone(doc)
    THEN LET r == extract_estate_data(Val(doc).slots, cs)
         IN  [data |-> acc \o r.data,
              logs |-> fetch_logs(link, doc) \o r.logs
                       \o <<LogEntry("INFO", "Total records collected so far",
                                     Len(acc \o r.data))>>]
    ELSE [data |-> acc,
          logs |-> fetch_logs(link, doc)
                   \o <<LogEntry("WARNING", "Skipping link due to fetch error",
                                 PageOf(link))>>]

\* what the landing page may show in its count element
CountTexts ==
    {<<>>, <<"x">>, <<"0", " ", "x">>, <<"5", " ", "x">>,
     <<"2", "5", " ", "x">>, <<"4", "5">>}
\* a count above the 9980 from which the plan is capped
LongCountText == <<"1", "0", "0", "0", "0">>
LandingDocuments(counts) == {Document(c, <<>>) : c \in counts}

CompleteSlotA == Slot(Some(<<"a">>), Some(<<"1", "2", " ", "F", "t">>), Some(<<"2">>),
                      Some(<<"5">>), None)
CompleteSlotB == Slot(Some(<<"a", "a">>), Some(<<"0", " ", "F", "t">>), Some(<<"0">>),
                      None, Some(<<"5">>))
IncompleteSlot == Slot(Some(<<"a">>), None, Some(<<"2">>), Some(<<"5">>), None)
\* listing pages the site may answer with
SamplePages ==
    {<<>>, <<CompleteSlotA>>, <<CompleteSlotA, IncompleteSlot>>,
     <<CompleteSlotB, CompleteSlotA>>}
PageDocuments == {Document(None, p) : p \in SamplePages}

\* what fetch_page_content may return for the page at position idx of the
\* plan: anything for a short plan; for a long one a failure at the even
\* positions and an empty listing page at the odd ones
PageAnswers(plan, idx) ==
    IF Len(plan) <= MaxVariedPlan THEN Opt(PageDocuments)
    ELSE IF idx % 2 = 0 THEN {None}
    ELSE {Some(Document(None, <<>>))}

\* a loop that stays on a link whose fetch failed
next_link_retry(idx, doc) == IF IsNone(doc) THEN idx ELSE idx + 1

\* line 186: the for loop moves to the next link, whatever the fetch gave
next_link(idx, doc) == idx + 1

\* lines 169-185: the landing fetch, the two fatal checks, the plan and the
\* city index
ScrapeBegin ==
    /\ pc = "start"
    /\ \E doc \in Opt(LandingDocuments(site)) :
        LET r == scrape_prologue(doc, csv_file)
        IN  /\ landing' = doc
            /\ fetched' = Append(fetched, [url |-> base_url, doc |-> doc])
            /\ estate_count' = r.count
            /\ links' = r.links
            /\ cities' = r.cities
            /\ log' = log \o r.logs
            /\ all_data' = <<>>
            /\ link_idx' = 1
            /\ result' = IF r.fatal THEN Some(<<>>) ELSE None
            /\ pc' = IF r.fatal THEN "returned" ELSE "pages"
    /\ UNCHANGED <<site, csv_file, location, city, extractVars, storeVars, parseVars>>

\* lines 186-194: one pass of the loop
VisitPage ==
    /\ pc = "pages"
    /\ link_idx <= Len(links)
    /\ \E doc \in PageAnswers(links, link_idx) :
        LET r == visit_page(all_data, links[link_idx], doc, cities)
        IN  /\ fetched' = Append(fetched, [url |-> links[link_idx], doc |-> doc])
            /\ all_data' = r.data
            /\ log' = log \o r.logs
            /\ link_idx' = next_link(link_idx, doc)
    /\ UNCHANGED <<pc, site, landing, result, estate_count, links, cityVars, extractVars, storeVars,
                   parseVars>>

\* lines 196-197: the loop is over
ScrapeReturn ==
    /\ pc = "pages"
    /\ link_idx > Len(links)
    /\ log' = Append(log, LogEntry("INFO", "Scraping completed.", Len(all_data)))
    /\ result' = Some(all_data)
    /\ pc' = "returned"
    /\ UNCHANGED <<site, landing, all_data, link_idx, fetched, linkVars, cityVars, extractVars,
                   storeVars, parseVars>>

---------------------------------------------------------------------------
(* utils.parse_decimal and utils.parse_int                                 *)

\* value.replace("Ft", ""): every occurrence removed, left to right
RECURSIVE RemoveFt(_)
RemoveFt(s) ==
    IF s = <<>> THEN <<>>
    ELSE IF Len(s) >= 2 /\ s[1] = "F" /\ s[2] = "t" THEN RemoveFt(Tail(Tail(s)))
    ELSE <<Head(s)>> \o RemoveFt(Tail(s))

\* Decimal(text) accepts a text of digits and dots when it has a digit and
\* at most one dot; anything else is InvalidOperation
ValidDecimal(text) ==
    /\ \E i \in 1..Len(text) : text[i] \in Digits
    /\ Cardinality({i \in 1..Len(text) : text[i] = "."}) <= 1

\* the Decimal of a valid text: the integer m of its digits and the number e
\* of digits after the dot, the value being m / 10^e
DecimalOf(text) ==
    LET dots == {i \in 1..Len(text) : text[i] = "."}
    IN  [m |-> DigitsValue(KeepChars(text, Digits), 0),
         e |-> IF dots = {} THEN 0 ELSE Len(text) - (CHOOSE i \in dots : TRUE)]

\* [val, logs]: the Decimal or None, and the entries logged
parse_decimal(value) ==
    LET text == KeepChars(Strip(RemoveFt(value)), Digits \cup {"."})
    IN  IF text = <<>> THEN [val |-> None, logs |-> <<>>]
        ELSE IF ValidDecimal(text) THEN [val |-> Some(DecimalOf(text)), logs |-> <<>>]
        ELSE [val |-> None, logs |-> <<LogEntry("ERROR", "Invalid decimal value", 0)>>]

\* the int of the digits of the text, None when it has none
parse_int(value) ==
    LET digits == KeepChars(value, Digits)
    IN  IF digits = <<>> THEN None ELSE Some(DigitsValue(digits, 0))

\* the characters of the texts tried on parse_decimal: digits, a space, the
\* dot, the letters of the currency marker and one other character
ParseAlphabet == {"0", "1", " ", ".", "F", "t", "x"}

\* a text of digits grouped by separators, followed by " Ft"
IsCurrencyText(text) ==
    LET n == Len(text) - 3
    IN  /\ n >= 1
        /\ Slice(text, n + 1, n + 3) = <<" ", "F", "t">>
        /\ \A i \in 1..n : text[i] \in Digits \cup Whitespace
        /\ text[1] \in Digits /\ text[n] \in Digits

\* the amounts, as the site writes them
CurrencyTexts ==
    {amount \o <<" ", "F", "t">> : amount \in SeqsUpTo({"0", "1", " "}, MaxTextLen)}

\* every text of ParseAlphabet up to MaxTextLen, and the amounts
ParseInputs == SeqsUpTo(ParseAlphabet, MaxTextLen) \cup CurrencyTexts

\* utils.py lines 18-34: one call of parse_decimal
ParseDecimal ==
    /\ pc = "start"
    /\ parsed' = parse_decimal(raw_value).val
    /\ log' = log \o parse_decimal(raw_value).logs
    /\ pc' = "done"
    /\ UNCHANGED <<raw_value, linkVars, cityVars, extractVars, scrapeVars, storeVars>>

---------------------------------------------------------------------------
(* database.insert_data_into_database, database.connect_root and the       *)
(* refresh branch of app.main                                              *)

\* lines 84-90: the values read from a record and normalized
normalize(record) ==
    [property_location |-> Some(record.property_location),
     price |-> parse_decimal(record.price).val,
     type |-> Some(record.type),
     place_size |-> parse_decimal(record.place_size).val,
     land_size |-> parse_decimal(record.land_size).val,
     rooms |-> parse_int(record.rooms),
     floor |-> IF record.floor = NA THEN None ELSE Some(record.floor)]

\* what the three parse_decimal calls of a record log
normalize_logs(record) ==
    parse_decimal(record.price).logs \o parse_decimal(record.place_size).logs
        \o parse_decimal(record.land_size).logs

\* a guard that also asks for the optional values
skip_record_any_null(n) ==
    \E f \in {"property_location", "price", "type", "place_size", "land_size", "rooms"} :
        IsNone(n[f])

\* lines 92-95: the record is skipped when a required value is None
skip_record(n) ==
    \E f \in {"property_location", "price", "type", "place_size"} : IsNone(n[f])

\* a table clear that leaves the rows in place
clear_table_keeping_rows(rows, outcome) == rows

\* lines 57-75: CREATE TABLE IF NOT EXISTS, TRUNCATE TABLE, commit.  TRUNCATE
\* commits implicitly, so the rows are gone once it has succeeded, whatever
\* the commit after it does; an error before it leaves the rows.
clear_table(rows, outcome) ==
    IF outcome \in {"create_error", "truncate_error"} THEN rows ELSE <<>>

ClearOutcomes == {"ok", "create_error", "truncate_error", "commit_error"}

\* the stored row of a record's values
Row(n, r) ==
    [property_location |-> Val(n.property_location), price |-> Val(n.price),
     type |-> Val(n.type), place_size |-> Val(n.place_size), land_size |-> n.land_size,
     rooms |-> n.rooms, floor |-> n.floor, run |-> r]

\* records the extractor emits, as in a scrape result
OkRecord ==
    estate_record(<<"a">>, Some(<<"1", "2", " ", "F", "t">>), Some(<<"2">>),
                  Some(<<"5", ".", "5">>), Some(<<"7">>), Some(<<"2">>))
ZeroPriceRecord ==
    estate_record(<<"a">>, Some(<<"0", " ", "F", "t">>), Some(<<"0">>),
                  Some(<<"5">>), None, Some(<<"0">>))
NoPlaceSizeRecord ==
    estate_record(UNKNOWN, Some(<<"1", "2", " ", "F", "t">>), Some(<<"2">>),
                  None, Some(<<"7">>), Some(<<"2">>))
NoOptionalsRecord ==
    estate_record(<<"a">>, Some(<<"1", " ", "2", "F", "t">>), Some(<<"x">>),
                  Some(<<"5">>), Some(<<"1", ".", "2", ".">>), Some(<<"x">>))
NoPriceRecord ==
    estate_record(<<"a">>, Some(<<"x">>), Some(<<"2">>), Some(<<"0", ".", "0">>),
                  None, Some(<<"2">>))
SampleRecords ==
    {OkRecord, ZeroPriceRecord, NoPlaceSizeRecord, NoOptionalsRecord, NoPriceRecord}
\* what scrape_real_estate_data may return to main
ScrapeResults == SeqsUpTo(SampleRecords, MaxData)

\* a check that lets every scrape result through
scrape_is_empty_never(scraped) == FALSE

\* app.py line 56: `not data` on the list the scrape returned
scrape_is_empty(scraped) == scraped = <<>>

\* app.py lines 51-61: the button is pressed and the scrape returns; an empty
\* result ends the refresh
Refresh ==
    /\ pc = "idle"
    /\ run < MaxRuns
    /\ run' = run + 1
    /\ \E scraped \in ScrapeResults :
        /\ data' = scraped
        /\ IF scrape_is_empty(scraped)
           THEN /\ log' = <<LogEntry("ERROR", "No data scraped. Exiting.", 0)>>
                /\ pc' = "idle"
           ELSE /\ log' = <<LogEntry("INFO", "Scraped records.", Len(scraped))>>
                /\ pc' = "connect"
    /\ calls' = <<>>
    /\ db_error' = "none"
    /\ rec_idx' = 1
    /\ UNCHANGED <<table, pending, reached, truncated_run, before, cache,
                   linkVars, cityVars, extractVars, scrapeVars, parseVars>>

\* database.py lines 136-148: initialize_database (its errors are logged and
\* dropped), then the connection; without one the insert is not called
ConnectRoot ==
    /\ pc = "connect"
    /\ \E connected \in BOOLEAN :
        IF connected
        THEN /\ log' = Append(log, LogEntry("INFO", "Connected to the database as root user.", 0))
             /\ reached' = reached \cup {run}
             /\ before' = table
             /\ pc' = "clear"
        ELSE /\ log' = Append(log, LogEntry("ERROR", "Error connecting as root user", 0))
             /\ UNCHANGED <<reached, before>>
             /\ pc' = "closed"
    /\ UNCHANGED <<data, table, pending, rec_idx, run, truncated_run, calls, db_error, cache,
                   linkVars, cityVars, extractVars, scrapeVars, parseVars>>

\* database.py lines 55-75 (and 124-126 on an error)
ClearTable ==
    /\ pc = "clear"
    /\ \E outcome \in ClearOutcomes :
        /\ table' = clear_table(table, outcome)
        /\ truncated_run' =
              IF outcome \in {"create_error", "truncate_error"} THEN truncated_run ELSE run
        /\ IF outcome = "ok"
           THEN /\ log' = log \o <<LogEntry("INFO", "Verified that table exists.", 0),
                                   LogEntry("INFO", "Cleared existing data.", 0)>>
                /\ db_error' = "none"
                /\ pc' = "rows"
           ELSE /\ log' = Append(log, LogEntry("ERROR", "Database error", 0))
                /\ db_error' = outcome
                /\ pc' = "inserted"
    /\ pending' = <<>>
    /\ UNCHANGED <<data, rec_idx, run, reached, before, calls, cache,
                   linkVars, cityVars, extractVars, scrapeVars, parseVars>>

\* database.py lines 83-119: one pass of the loop over the records
InsertRecord ==
    /\ pc = "rows"
    /\ rec_idx <= Len(data)
    /\ LET record == data[rec_idx]
           n == normalize(record)
       IN  IF skip_record(n)
           THEN /\ log' = log \o normalize_logs(record)
                            \o <<LogEntry("WARNING",
                                          "Skipping record due to missing required fields",
                                          rec_idx)>>
                /\ UNCHANGED <<pending, calls>>
           ELSE \E accepted \in BOOLEAN :
                   /\ calls' = Append(calls, [idx |-> rec_idx, values |-> n, ok |-> accepted])
                   /\ IF accepted
                      THEN /\ pending' = Append(pending, Row(n, run))
                           /\ log' = log \o normalize_logs(record)
                      ELSE /\ pending' = pending
                           /\ log' = log \o normalize_logs(record)
                                        \o <<LogEntry("ERROR", "Error when inserting record",
                                                      rec_idx)>>
    /\ rec_idx' = rec_idx + 1
    /\ UNCHANGED <<pc, data, table, run, reached, truncated_run, before, db_error, cache,
                   linkVars, cityVars, extractVars, scrapeVars, parseVars>>

\* database.py lines 121-126: the commit after the loop, or the rollback
\* when it raises
CommitRows ==
    /\ pc = "rows"
    /\ rec_idx > Len(data)
    /\ \E committed \in BOOLEAN :
        IF committed
        THEN /\ table' = table \o pending
             /\ log' = Append(log, LogEntry("INFO", "Data inserted into the database successfully.", 0))
             /\ db_error' = "none"
        ELSE /\ table' = table
             /\ log' = Append(log, LogEntry("ERROR", "Database error", 0))
             /\ db_error' = "final_commit_error"
    /\ pending' = <<>>
    /\ pc' = "inserted"
    /\ UNCHANGED <<data, rec_idx, run, reached, truncated_run, before, calls, cache,
                   linkVars, cityVars, extractVars, scrapeVars, parseVars>>

\* database.py lines 149-152 and app.py lines 65-71, 79-80: the connection
\* is closed (an uncommitted transaction is dropped with it), main reports
\* the refresh as done, clears the cache of load_data and loads the table
\* anew; the handler's locals and the log kept for this refresh end with it
FinishRefresh ==
    /\ pc \in {"inserted", "closed"}
    /\ pending' = <<>>
    /\ data' = <<>>
    /\ rec_idx' = 1
    /\ before' = <<>>
    /\ calls' = <<>>
    /\ db_error' = "none"
    /\ log' = <<>>
    /\ cache' = Some(table)
    /\ pc' = "idle"
    /\ UNCHANGED <<table, run, reached, truncated_run,
                   linkVars, cityVars, extractVars, scrapeVars, parseVars>>

\* app.py lines 44-51, 79-80: the page is rendered without the button
\* pressed; load_data reads the table unless its result is cached
Render ==
    /\ pc = "idle"
    /\ cache' = IF IsNone(cache) THEN Some(table) ELSE cache
    /\ UNCHANGED <<pc, log, data, table, pending, rec_idx, run, reached, truncated_run,
                   before, calls, db_error,
                   linkVars, cityVars, extractVars, scrapeVars, parseVars>>

---------------------------------------------------------------------------
(* Specifications.                                                         *)

LinksIdle == estate_count = 0 /\ links = <<>>
CityIdle == csv_file = None /\ cities = <<>> /\ location = <<>> /\ city = None
ExtractIdle == soup = <<>> /\ page_data = <<>> /\ page_slots = <<>>
ScrapeIdle ==
    site = {} /\ landing = None /\ all_data = <<>> /\ link_idx = 1 /\ fetched = <<>> /\ result = None
StoreIdle ==
    /\ data = <<>> /\ table = <<>> /\ pending = <<>> /\ rec_idx = 1 /\ run = 0
    /\ reached = {} /\ truncated_run = 0 /\ before = <<>> /\ calls = <<>>
    /\ db_error = "none" /\ cache = None
ParseIdle == raw_value = <<>> /\ parsed = None

\* generate_links on every estate count up to MaxCount
InitLinks ==
    /\ pc = "start"
    /\ log = <<>>
    /\ estate_count \in 0..MaxCount
    /\ links = <<>>
    /\ CityIdle
    /\ ExtractIdle
    /\ ScrapeIdle
    /\ StoreIdle
    /\ ParseIdle
NextLinks == GenerateLinks
SpecLinks == InitLinks /\ [][NextLinks]_vars

\* the city index loaded from every file within the bounds, then one lookup
InitCities ==
    /\ pc = "start"
    /\ log = <<>>
    /\ csv_file \in {None} \cup {Some(f) : f \in CsvFiles}
    /\ cities = <<>>
    /\ location = <<>>
    /\ city = None
    /\ LinksIdle
    /\ ExtractIdle
    /\ ScrapeIdle
    /\ StoreIdle
    /\ ParseIdle
NextCities == LoadCities \/ ResolveCity
SpecCities == InitCities /\ [][NextCities]_vars

\* extract_estate_data on every page within the bounds, with each sample index
InitExtract ==
    /\ pc = "start"
    /\ log = <<>>
    /\ soup \in Pages
    /\ cities \in SampleIndexes
    /\ page_data = <<>>
    /\ page_slots = <<>>
    /\ csv_file = None /\ location = <<>> /\ city = None
    /\ LinksIdle
    /\ ScrapeIdle
    /\ StoreIdle
    /\ ParseIdle
NextExtract == Extract
SpecExtract == InitExtract /\ [][NextExtract]_vars

\* one run of scrape_real_estate_data against every answer of the site
\* within the samples
InitScrape ==
    /\ pc = "start"
    /\ log = <<>>
    /\ csv_file \in SampleCsvFiles
    /\ cities = <<>> /\ location = <<>> /\ city = None
    /\ site = Opt(CountTexts)
    /\ landing = None /\ all_data = <<>> /\ link_idx = 1 /\ fetched = <<>> /\ result = None
    /\ LinksIdle
    /\ ExtractIdle
    /\ StoreIdle
    /\ ParseIdle
NextScrape == ScrapeBegin \/ VisitPage \/ ScrapeReturn
SpecScrape == InitScrape /\ [][NextScrape]_vars

\* the same run, the site also showing a count that makes the plan reach
\* its cap
InitPlan ==
    /\ pc = "start"
    /\ log = <<>>
    /\ csv_file \in SampleCsvFiles
    /\ cities = <<>> /\ location = <<>> /\ city = None
    /\ site = Opt(CountTexts \cup {LongCountText})
    /\ landing = None /\ all_data = <<>> /\ link_idx = 1 /\ fetched = <<>> /\ result = None
    /\ LinksIdle
    /\ ExtractIdle
    /\ StoreIdle
    /\ ParseIdle
NextPlan == NextScrape
SpecPlan == InitPlan /\ [][NextPlan]_vars

\* parse_decimal on every text within the bounds
InitParse ==
    /\ pc = "start"
    /\ log = <<>>
    /\ raw_value \in ParseInputs
    /\ parsed = None
    /\ LinksIdle
    /\ CityIdle
    /\ ExtractIdle
    /\ ScrapeIdle
    /\ StoreIdle
NextParse == ParseDecimal
SpecParse == InitParse /\ [][NextParse]_vars

\* refreshes of the dashboard, from an empty table: each takes a scrape
\* result and stores it, the database failing where it may
Init ==
    /\ pc = "idle"
    /\ log = <<>>
    /\ LinksIdle
    /\ CityIdle
    /\ ExtractIdle
    /\ ScrapeIdle
    /\ StoreIdle
    /\ ParseIdle
Next ==
    \/ Refresh
    \/ ConnectRoot
    \/ ClearTable
    \/ InsertRecord
    \/ CommitRows
    \/ FinishRefresh
    \/ Render
Spec == Init /\ [][Next]_vars

---------------------------------------------------------------------------
(* Properties.                                                             *)

\* C3: for every estate count c, generate_links(c) returns exactly
\* min(500, c // 20 + 1) URLs, and the i-th URL (i from 1) carries page
\* number i: the page numbers are 1..page_count, increasing, without gap or
\* repeat.
C3_LinksCountAndNumbering ==
    pc = "done" =>
        /\ Len(links) = Min(500, estate_count \div 20 + 1)
        /\ \A i \in 1..Len(links) : links[i] = Url(i) /\ PageOf(links[i]) = i

\* C3's case: the count 438 has produced its 22 links
C3_Witness == pc = "done" /\ estate_count = 438 /\ Len(links) = 22

\* the entries of the city column as the specification describes them
ExpectedIndex(file) ==
    LET header == IF file = <<>> THEN <<>> ELSE Head(file)
        body == IF file = <<>> THEN <<>> ELSE Tail(file)
    IN  ReadRowsTrimmedNonEmpty(body, CityColumn(header), <<>>)

\* C10: load_cities_from_csv returns, in file order, the whitespace-trimmed
\* entries of the city column, every entry of the returned index is
\* non-empty (a blank or whitespace-only cell contributes no entry), and a
\* missing file yields an empty index and a logged error.
C10_IndexTrimmedNonEmpty ==
    pc \in {"loaded", "done"} =>
        /\ \A i \in 1..Len(cities) : cities[i] # <<>>
        /\ IsNone(csv_file) =>
              /\ cities = <<>>
              /\ \E i \in 1..Len(log) : log[i].level = "ERROR"
        /\ (~IsNone(csv_file) /\ ~ExpectedIndex(Val(csv_file)).raised) =>
              cities = ExpectedIndex(Val(csv_file)).list

\* the cities of the index that occur in the text, by position
Matches(text, cs) == {i \in 1..Len(cs) : Contains(text, cs[i])}

\* C9: extract_city_from_location returns the first city in index order that
\* occurs as a substring of the text, and returns "Unknown" if no listed
\* city occurs in the text or the text is empty.
C9_FirstMatchElseUnknown ==
    pc = "done" =>
        /\ Matches(location, cities) # {} =>
              \E i \in Matches(location, cities) :
                  /\ \A j \in Matches(location, cities) : i <= j
                  /\ Val(city) = cities[i]
        /\ (Matches(location, cities) = {} \/ location = <<>>) =>
              Val(city) = UNKNOWN

\* how many records of the page came from slot `estate`
EmittedFrom(estate) == Cardinality({i \in 1..Len(page_slots) : page_slots[i] = estate})

\* location, price and room count are all present in the source slot
AllPresent(page, estate) ==
    /\ estate <= Len(page)
    /\ ~IsNone(page[estate].loc)
    /\ ~IsNone(page[estate].price)
    /\ ~IsNone(page[estate].rooms)

\* C4: in extract_estate_data, every listing slot (positions 1..21) in which
\* location, price and room count are all present yields exactly one record,
\* and a slot missing one of the three (a slot without a location element
\* included) yields none.
C4_OneRecordIffAllPresent ==
    pc = "done" =>
        \A estate \in 1..21 :
            /\ AllPresent(soup, estate) => EmittedFrom(estate) = 1
            /\ ~AllPresent(soup, estate) => EmittedFrom(estate) = 0

\* the log holds an entry with this message
Logged(msg) == \E i \in 1..Len(log) : log[i].msg = msg
\* how many entries of this level the log holds about page `page`
LoggedAbout(level, page) ==
    Cardinality({i \in 1..Len(log) : log[i].level = level /\ log[i].arg = page})

\* C1: in scrape_real_estate_data, if the landing-page fetch fails or the
\* estate count read from the landing page is 0, the run returns an empty
\* result with a logged error, and no pagination link is built, no plan page
\* is fetched and the city index is not loaded.
C1_FatalChecksReturnEmpty ==
    (pc # "start" /\ (IsNone(landing) \/ estate_count = 0)) =>
        /\ pc = "returned"
        /\ result = Some(<<>>)
        /\ \E i \in 1..Len(log) : log[i].level = "ERROR"
        /\ links = <<>>
        /\ ~Logged("Generated pagination links.")
        /\ Len(fetched) = 1 /\ fetched[1].url = base_url
        /\ cities = <<>>
        /\ ~Logged("Loaded cities from the CSV file.")
        /\ ~Logged("CSV file not found")
        /\ ~Logged("Error loading cities from CSV")

\* C1's case: the landing page was fetched and showed a count of 0
C1_Witness ==
    /\ pc = "returned"
    /\ ~IsNone(landing)
    /\ Val(landing).count = Some(<<"0", " ", "x">>)
    /\ estate_count = 0

\* the records of the fetches that succeeded, concatenated in fetch order
RECURSIVE ConcatExtracted(_, _)
ConcatExtracted(fs, cs) ==
    IF fs = <<>> THEN <<>>
    ELSE (IF IsNone(Head(fs).doc) THEN <<>>
          ELSE extract_estate_data(Val(Head(fs).doc).slots, cs).data)
         \o ConcatExtracted(Tail(fs), cs)

\* the fetches of the plan: all but the landing fetch
PlanFetches == Tail(fetched)

\* C2: for every pattern of per-page fetch successes and failures, the
\* aggregate is exactly the concatenation, in plan order, of
\* extract_estate_data's output for the pages whose fetch succeeded; a
\* failed page adds nothing, does not stop the visit of later pages, does
\* not remove records already aggregated and is logged with exactly one
\* warning; the run returns that aggregate.
C2_AggregateIsConcatOfSucceeded ==
    pc \in {"pages", "returned"} =>
        /\ Len(PlanFetches) = link_idx - 1
        /\ \A i \in 1..Len(PlanFetches) : PlanFetches[i].url = links[i]
        /\ all_data = ConcatExtracted(PlanFetches, cities)
        /\ \A i \in 1..Len(PlanFetches) :
              LoggedAbout("WARNING", i) = (IF IsNone(PlanFetches[i].doc) THEN 1 ELSE 0)
        /\ pc = "returned" =>
              /\ Len(PlanFetches) = Len(links)
              /\ result = Some(all_data)

\* C2's case: the second of three pages failed, the first and the third
\* gave one and two records
C2_Witness ==
    /\ pc = "returned"
    /\ Len(fetched) = 4
    /\ ~IsNone(fetched[2].doc) /\ IsNone(fetched[3].doc) /\ ~IsNone(fetched[4].doc)
    /\ Len(Val(fetched[2].doc).slots) = 1
    /\ Len(Val(result)) = 3

\* a Decimal above zero
Positive(d) == d.m > 0

\* C5: no record reaches the storage insert with price <= 0 or
\* place_size <= 0: a raw record whose price text or place-size text
\* normalizes to zero (such as '0 Ft') is discarded by
\* insert_data_into_database and not inserted.
C5_NoZeroPriceOrSizeInserted ==
    /\ \A i \in 1..Len(calls) :
          /\ Positive(Val(calls[i].values.price))
          /\ Positive(Val(calls[i].values.place_size))
    /\ \A i \in 1..Len(table) : Positive(table[i].price) /\ Positive(table[i].place_size)

\* the INSERT executions for the record at position i
CallsFor(i) == {k \in 1..Len(calls) : calls[k].idx = i}
\* the warnings logged for the record at position i
WarningsFor(i) ==
    {k \in 1..Len(log) : log[k].level = "WARNING" /\ log[k].arg = i}

\* C6: in insert_data_into_database a raw record is inserted only if
\* property_location, parsed price, type and parsed place_size are all
\* non-null; if one is null the record is discarded with a logged warning
\* and the loop goes on with the next record; an unparseable land_size or
\* rooms alone never causes a discard (it is stored as null); floor is
\* stored as null exactly when its text is the literal 'N/A'.
C6_DiscardIffRequiredNull ==
    pc \in {"rows", "inserted"} =>
        /\ \A i \in 1..(rec_idx - 1) :
              LET record == data[i]
                  required_null ==
                      \/ IsNone(parse_decimal(record.price).val)
                      \/ IsNone(parse_decimal(record.place_size).val)
              IN  /\ required_null =>
                        Cardinality(CallsFor(i)) = 0 /\ Cardinality(WarningsFor(i)) = 1
                  /\ ~required_null =>
                        Cardinality(CallsFor(i)) = 1 /\ Cardinality(WarningsFor(i)) = 0
                  /\ \A k \in CallsFor(i) :
                        /\ calls[k].values.land_size = parse_decimal(record.land_size).val
                        /\ calls[k].values.rooms = parse_int(record.rooms)
                        /\ IsNone(calls[k].values.floor) <=> record.floor = NA
                        /\ ~IsNone(calls[k].values.floor) =>
                              Val(calls[k].values.floor) = record.floor
        /\ \A k \in 1..Len(calls) : calls[k].idx < rec_idx
        /\ (pc = "inserted" /\ db_error \in {"none", "final_commit_error"}) =>
              rec_idx = Len(data) + 1

\* C6's case: the first record had no place_size and was discarded, the
\* loop went on, and the second was inserted with land_size and rooms null
C6_Witness ==
    /\ pc = "inserted"
    /\ Len(data) = 2
    /\ data[1].place_size = NA
    /\ Cardinality(WarningsFor(1)) = 1
    /\ Len(calls) = 1
    /\ calls[1].idx = 2
    /\ IsNone(calls[1].values.land_size)
    /\ IsNone(calls[1].values.rooms)

\* the rows of the records of a scrape result that pass the required-value
\* check
RECURSIVE ValidRows(_, _)
ValidRows(ds, r) ==
    IF ds = <<>> THEN <<>>
    ELSE (IF skip_record(normalize(Head(ds))) THEN <<>>
          ELSE <<Row(normalize(Head(ds)), r)>>)
         \o ValidRows(Tail(ds), r)

\* C7: the storage insert is atomic per run: whenever
\* insert_data_into_database returns, normally or after a database error at
\* any step, the stored dataset is either the complete set of that run's
\* valid records or exactly the dataset stored before the call.
C7_InsertAtomicPerRun ==
    pc = "inserted" => (table = ValidRows(data, run) \/ table = before)

\* C8: after any sequence of refresh runs each of which reaches the storage
\* insert, the stored dataset holds no record of any run but the most
\* recent one.
C8_OnlyLatestRunStored ==
    (pc \in {"inserted", "idle"} /\ reached = 1..run) =>
        \A i \in 1..Len(table) : table[i].run = run

\* C8, amended: the stored dataset holds no record of any run but the most
\* recent one whose TRUNCATE succeeded (a run whose CREATE TABLE or TRUNCATE
\* fails leaves the earlier dataset in place); rows of different runs are
\* never stored together.
C8_OnlyLastTruncatingRunStored ==
    /\ \A i \in 1..Len(table) : table[i].run = truncated_run
    /\ \A i \in 1..Len(pending) : pending[i].run = truncated_run
    /\ truncated_run <= run

\* C8's case: the second refresh replaced the rows the first had stored
C8_Witness ==
    /\ pc = "inserted"
    /\ run = 2
    /\ truncated_run = 2
    /\ Len(before) > 0
    /\ Len(table) > 0

\* a text without a digit: the empty text, or one that is no number
NonNumeric(text) == \A i \in 1..Len(text) : text[i] \notin Digits

\* C11: parse_decimal returns, for a text '<digits with separators> Ft', the
\* number its digits spell with the separators removed, and for an empty or
\* non-numeric text it returns null and has written a log entry (it returns
\* in every case: no text makes it raise).
C11_AmountOrLoggedNull ==
    pc = "done" /\ raw_value \in ParseInputs =>
        /\ IsCurrencyText(raw_value) =>
              parsed = Some([m |-> DigitsValue(KeepChars(raw_value, Digits), 0), e |-> 0])
        /\ NonNumeric(raw_value) => IsNone(parsed) /\ log # <<>>

\* the log entries written about one record or one of its values
RecordEntries ==
    {k \in 1..Len(log) :
        log[k].msg \in {"Invalid decimal value",
                        "Skipping record due to missing required fields",
                        "Error when inserting record"}}

\* how many values of the record a normalizer turns into null
NullValues(record) ==
    Cardinality({f \in {"price", "place_size", "land_size"} :
                    IsNone(parse_decimal(record[f]).val)})
        + (IF IsNone(parse_int(record.rooms)) THEN 1 ELSE 0)

\* the discard events of the records at positions 1..i of the scrape
\* result: a null from a normalizer, the record skipped, its INSERT rejected
RECURSIVE DiscardEvents(_)
DiscardEvents(i) ==
    IF i = 0 THEN 0
    ELSE DiscardEvents(i - 1) + NullValues(data[i])
            + (IF skip_record(normalize(data[i])) THEN 1 ELSE 0)
            + Cardinality({k \in CallsFor(i) : ~calls[k].ok})

\* the log entries about listing slot `estate` of the page, the summary
\* that closes the page left aside
SlotEntries(estate) ==
    {k \in 1..Len(log) :
        /\ log[k].msg # "Extracted real estate records from the page."
        /\ log[k].arg = estate}

\* C12: no error is silently lost: each discard event has a log entry
\* written for it, be it a page skipped by the run, a listing slot of the
\* page omitted by the extractor, a record discarded before storage or a
\* normalizer returning null.
C12_EveryDiscardLogged ==
    /\ (pc \in {"pages", "returned"} /\ fetched # <<>>) =>
          \A i \in 1..Len(PlanFetches) :
              IsNone(PlanFetches[i].doc) => LoggedAbout("WARNING", i) >= 1
    /\ pc = "done" =>
          \A estate \in 1..Len(soup) :
              EmittedFrom(estate) = 0 => SlotEntries(estate) # {}
    /\ pc \in {"rows", "inserted"} =>
          Cardinality(RecordEntries) >= DiscardEvents(rec_idx - 1)

\* the room-count text of the slot the i-th record came from, trimmed
RoomText(i) == Strip(Val(soup[page_slots[i]].rooms))

\* C13: in every record emitted by extract_estate_data, type is House
\* exactly when the whitespace-trimmed room-count text of its slot is '0'
\* and Apartment for every other text, and the rooms field is that trimmed
\* text.
C13_TypeFromTrimmedRooms ==
    pc = "done" =>
        \A i \in 1..Len(page_data) :
            /\ page_data[i].type = "House" <=> RoomText(i) = <<"0">>
            /\ RoomText(i) # <<"0">> => page_data[i].type = "Apartment"
            /\ page_data[i].rooms = RoomText(i)

\* C13's case: a page gave a House from the room text ' 0' and an Apartment
\* from the room text '2 '
C13_Witness ==
    /\ pc = "done"
    /\ Len(page_data) = 2
    /\ soup[page_slots[1]].rooms = Some(<<" ", "0">>)
    /\ page_data[1].type = "House"
    /\ soup[page_slots[2]].rooms = Some(<<"2", " ">>)
    /\ page_data[2].type = "Apartment"

\* C15: in every record emitted by extract_estate_data the floor field
\* equals the rooms field (both are the text of the same slot element), so
\* floor is never 'N/A' in an emitted record.
C15_FloorIsRooms ==
    pc = "done" =>
        \A i \in 1..Len(page_data) :
            /\ page_data[i].floor = page_data[i].rooms
            /\ page_data[i].floor # NA

\* C15's case: a slot with no size element at all gave a record whose floor
\* is its room count
C15_Witness ==
    /\ pc = "done"
    /\ Len(page_data) = 1
    /\ IsNone(soup[page_slots[1]].place) /\ IsNone(soup[page_slots[1]].land)
    /\ page_data[1].rooms = <<"2">>
    /\ page_data[1].floor = <<"2">>

\* C14: every run of scrape_real_estate_data ends after a bounded number of
\* fetches: the landing URL first, then the plan URLs in plan order, one
\* fetch for each step of the loop, no URL of the plan fetched twice (a
\* failed one is not tried again), never more than 501 fetches; a run that
\* has passed the two fatal checks has made exactly 1 + page_count fetches
\* when it returns, and the first URL of its plan is the landing URL.
C14_BoundedFetches ==
    pc # "start" =>
        /\ fetched[1].url = base_url
        /\ Len(fetched) <= 1 + Len(links)
        /\ Len(links) <= 500
        /\ Len(fetched) <= 501
        /\ \A i \in 1..Len(PlanFetches) : PlanFetches[i].url = links[i]
        /\ Cardinality({PlanFetches[i].url : i \in 1..Len(PlanFetches)}) = Len(PlanFetches)
        /\ pc = "pages" => Len(fetched) = link_idx /\ links[1] = base_url
        /\ (pc = "returned" /\ ~IsNone(landing) /\ estate_count # 0) =>
              /\ Len(fetched) = 1 + Len(links)
              /\ links[1] = base_url

\* C14's case: a run whose plan was capped at 500 pages has returned after
\* 501 fetches, the failed second page fetched once
C14_Witness ==
    /\ pc = "returned"
    /\ estate_count = 10000
    /\ Len(links) = 500
    /\ Len(fetched) = 501
    /\ IsNone(fetched[3].doc)
    /\ fetched[4].url = links[3]

\* a refresh has just ended on an empty scrape result
EmptyRefresh == pc = "idle" /\ run' = run + 1 /\ data' = <<>>

\* C16: a refresh whose scrape returns an empty result leaves the stored
\* dataset as it was: it ends without calling the storage insert (nothing is
\* truncated) and without clearing the cached dataset; connect_root is only
\* ever called with a non-empty scrape result.
C16_EmptyScrapeChangesNothing ==
    /\ [][EmptyRefresh =>
            /\ pc' = "idle"
            /\ table' = table
            /\ truncated_run' = truncated_run
            /\ reached' = reached
            /\ cache' = cache]_vars
    /\ [](pc \in {"connect", "clear", "rows", "inserted", "closed"} => data # <<>>)

\* C16's case: the first refresh stored rows and they were cached, the
\* second ended on an empty scrape result, rows and cache still in place
C16_Witness ==
    /\ pc = "idle"
    /\ run = 2
    /\ Logged("No data scraped. Exiting.")
    /\ reached = {1}
    /\ Len(table) > 0
    /\ cache = Some(table)

====
